---- MODULE Spec2Model ----
(***************************************************************************)
(* Model of the traffic counter analysis: the line parser, the four        *)
(* aggregators (traffic_analysis.py), the two orchestrators (main and the  *)
(* /analyze endpoint of api.py) and the endpoint's temp-file handling.     *)
(*                                                                         *)
(* Time is counted in half-hour slots.  A timestamp is                     *)
(*   [day, slot, aware, off]                                               *)
(* day d is the calendar date 2021-12-0d, slot s is the wall-clock time    *)
(* s * 00:30, aware tells whether the datetime carries a UTC offset and    *)
(* off is that offset in half hours (0 for a naive datetime).              *)
(* A record is [timestamp, count, id]; id stands for the identity of the   *)
(* HalfHourRecord object (two records of equal value are two objects).     *)
(***************************************************************************)
EXTENDS Integers, Sequences, FiniteSets, TLC

VARIABLES
    records,     \* the List[HalfHourRecord] the caller holds
    called,      \* SpecAgg: the aggregator that was applied to records
    total,       \* result of total_cars
    per_day,     \* result of cars_per_day: the dict, as its items in insertion order
    top3,        \* result of top_three_half_hours: [exc, val]
    window,      \* result of min_1_5_hour_window
    mode,        \* SpecOrch: "main" (traffic_analysis.main) or "api" (/analyze)
    pc,          \* SpecOrch: position of the orchestrator
    file,        \* SpecOrch: the input file, a sequence of lines
    line_num,    \* SpecOrch: number of lines parse_file has consumed
    stderr,      \* SpecOrch: diagnostics printed to sys.stderr
    parsed,      \* SpecOrch: the list parse_file returned (before any sort)
    trace,       \* SpecOrch: the calls made on records, with the argument each saw
    stdout,      \* SpecOrch: lines main printed
    response,    \* SpecOrch: what the client of /analyze receives
    temp_exists, \* SpecOrch: whether temp_<filename> exists
    dir,         \* SpecApi: directory, temp path -> inode (0: no such file)
    data,        \* SpecApi: inode -> file content
    rq           \* SpecApi: per request state

aggVars  == <<called, total, per_day, top3, window>>
orchVars == <<mode, pc, file, line_num, stderr, parsed, trace, stdout, response, temp_exists>>
apiVars  == <<dir, data, rq>>
vars     == <<records, aggVars, orchVars, apiVars>>

(***************************************************************************)
(* Bounds of the model                                                     *)
(***************************************************************************)
MaxLen    == 4    \* SpecAgg: longest record list handed to an aggregator
MaxWinLen == 5    \* SpecWin: longest record list handed to the window search
MaxLines  == 4    \* SpecOrch: longest input file, in lines

(***************************************************************************)
(* datetime                                                                *)
(***************************************************************************)
Naive(d, s)    == [day |-> d, slot |-> s, aware |-> FALSE, off |-> 0]
Aware(d, s, o) == [day |-> d, slot |-> s, aware |-> TRUE,  off |-> o]

\* The point on the time line a datetime is ordered by: the wall clock for
\* a naive datetime, the UTC instant (wall clock minus offset) for an aware one.
Instant(t) == t.day * 48 + t.slot - t.off

\* datetime.__lt__ raises TypeError between a naive and an aware datetime.
Comparable(t1, t2) == t1.aware = t2.aware
TsLt(t1, t2) == Instant(t1) < Instant(t2)
\* datetime.__eq__: a naive and an aware datetime are never equal (no raise).
TsEq(t1, t2) == Comparable(t1, t2) /\ Instant(t1) = Instant(t2)

\* datetime.date(): the calendar date of the wall clock, offset discarded.
DateOf(t) == t.day

\* date.isoformat(): "2021-12-0d", as its fields.
DateIsoformat(d) == <<2021, 12, d>>

Rec(t, c, i) == [timestamp |-> t, count |-> c, id |-> i]

(***************************************************************************)
(* Tokens of an input line and their conversions                           *)
(***************************************************************************)
\* datetime.fromisoformat on the timestamp tokens of the model:
\* [exc, val], exc = "ValueError" when the token is no ISO-8601 datetime.
FromIsoformat(tok) ==
    CASE tok = "2021-12-01T23:30:00"       -> [exc |-> "none", val |-> Naive(1, 47)]
      [] tok = "2021-12-02T00:00:00"       -> [exc |-> "none", val |-> Naive(2, 0)]
      [] tok = "2021-12-02"                -> [exc |-> "none", val |-> Naive(2, 0)]
      [] tok = "2021-12-02T00:00:00+00:30" -> [exc |-> "none", val |-> Aware(2, 0, 1)]
      [] tok = "2021-12-01T23:30:00-00:30" -> [exc |-> "none", val |-> Aware(1, 47, -1)]
      [] OTHER                             -> [exc |-> "ValueError", val |-> Naive(0, 0)]

\* int() on the count tokens of the model.
IntOf(tok) ==
    CASE tok = "3"   -> [exc |-> "none", val |-> 3]
      [] tok = "-1"  -> [exc |-> "none", val |-> -1]
      [] tok = "+2"  -> [exc |-> "none", val |-> 2]
      [] tok = "10"  -> [exc |-> "none", val |-> 10]
      [] OTHER       -> [exc |-> "ValueError", val |-> 0]

\* Whitespace as str.strip() and str.split() see it.
IsSpace(sym) == sym \in {" ", "\t", "\n"}

\* A line is a sequence of symbols, each a whitespace character or a maximal
\* run of other characters (a field); no two fields are adjacent.
RECURSIVE LStrip(_)
LStrip(line) ==
    IF line # <<>> /\ IsSpace(line[1]) THEN LStrip(Tail(line)) ELSE line
RECURSIVE RStrip(_)
RStrip(line) ==
    IF line # <<>> /\ IsSpace(line[Len(line)])
    THEN RStrip(SubSeq(line, 1, Len(line) - 1)) ELSE line
\* line.strip()
Strip(line) == RStrip(LStrip(line))
\* line.split()
Split(line) == SelectSeq(line, LAMBDA sym : ~IsSpace(sym))

NoRecord == [timestamp |-> [day |-> 0, slot |-> 0, aware |-> FALSE, off |-> 0],
             count |-> 0, id |-> 0]

ParseLineNoBlankSkip(line, num) ==
    LET stripped == Strip(line)
        parts == Split(stripped)
    IN IF Len(parts) # 2
       THEN [kind |-> "Warning", rec |-> NoRecord]
       ELSE IF FromIsoformat(parts[1]).exc # "none" \/ IntOf(parts[2]).exc # "none"
            THEN [kind |-> "Error", rec |-> NoRecord]
            ELSE [kind |-> "record",
                  rec |-> [timestamp |-> FromIsoformat(parts[1]).val,
                           count |-> IntOf(parts[2]).val, id |-> num]]
\* One iteration of the loop of parse_file on line number num:
\*   "blank"   the stripped line is empty: continue, nothing printed
\*   "Warning" len(parts) != 2: the field-count warning, continue
\*   "Error"   fromisoformat or int raised ValueError: the error line
\*   "record"  a HalfHourRecord is appended (the object made for line num)
ParseLine(line, num) ==
    LET stripped == Strip(line)
        parts == Split(stripped)
    IN IF stripped = <<>>
       THEN [kind |-> "blank", rec |-> NoRecord]
       ELSE IF Len(parts) # 2
            THEN [kind |-> "Warning", rec |-> NoRecord]
            ELSE IF FromIsoformat(parts[1]).exc # "none"
                 THEN [kind |-> "Error", rec |-> NoRecord]
                 ELSE IF IntOf(parts[2]).exc # "none"
                      THEN [kind |-> "Error", rec |-> NoRecord]
                      ELSE [kind |-> "record",
                            rec |-> [timestamp |-> FromIsoformat(parts[1]).val,
                                     count |-> IntOf(parts[2]).val, id |-> num]]

\* parse_file on a whole file: [records, stderr].
ParseFile(lines) ==
    LET f[i \in 0..Len(lines)] ==
            IF i = 0 THEN [records |-> <<>>, stderr |-> <<>>]
            ELSE LET r == ParseLine(lines[i], i)
                 IN CASE r.kind = "blank"  -> f[i-1]
                      [] r.kind = "record" ->
                            [f[i-1] EXCEPT !.records = Append(@, r.rec)]
                      [] OTHER ->
                            [f[i-1] EXCEPT !.stderr =
                                Append(@, [line_num |-> i, kind |-> r.kind,
                                           line |-> Strip(lines[i])])]
    IN f[Len(lines)]

(***************************************************************************)
(* Aggregators                                                             *)
(***************************************************************************)
RECURSIVE TotalCars(_)
\* sum(r.count for r in records)
TotalCars(recs) ==
    IF recs = <<>> THEN 0 ELSE recs[1].count + TotalCars(Tail(recs))

\* per_day[d] = per_day.get(d, 0) + c on a dict kept as its items in
\* insertion order: an existing key keeps its place, a new key goes last.
DictAdd(items, d, c) ==
    IF \E k \in 1..Len(items) : items[k].date = d
    THEN [k \in 1..Len(items) |->
             IF items[k].date = d
             THEN [date |-> d, cars |-> items[k].cars + c]
             ELSE items[k]]
    ELSE Append(items, [date |-> d, cars |-> c])

RECURSIVE CarsPerDayFrom(_, _)
CarsPerDayFrom(items, recs) ==
    IF recs = <<>> THEN items
    ELSE CarsPerDayFrom(DictAdd(items, DateOf(recs[1].timestamp), recs[1].count),
                        Tail(recs))

CarsPerDayOverwrite(recs) ==
    LET Last(d) == CHOOSE k \in 1..Len(recs) :
                      /\ DateOf(recs[k].timestamp) = d
                      /\ \A j \in k+1..Len(recs) : DateOf(recs[j].timestamp) # d
        f[i \in 0..Len(recs)] ==
            IF i = 0 THEN <<>>
            ELSE IF \E k \in 1..Len(f[i-1]) : f[i-1][k].date = DateOf(recs[i].timestamp)
                 THEN f[i-1]
                 ELSE Append(f[i-1], [date |-> DateOf(recs[i].timestamp),
                                      cars |-> recs[Last(DateOf(recs[i].timestamp))].count])
    IN f[Len(recs)]
\* cars_per_day(records)
CarsPerDay(recs) == CarsPerDayFrom(<<>>, recs)

\* The "<" of two sort keys, tuples of integers of one length: the first
\* position where they differ decides.
KeyLt(k1, k2) ==
    \E i \in 1..Len(k1) : k1[i] < k2[i] /\ \A j \in 1..i-1 : k1[j] = k2[j]

\* Stable insertion of list index i into the sorted index sequence idx:
\* after every index whose key is not greater than the key of i.
InsertSorted(idx, i, keys) ==
    LET p == Cardinality({j \in 1..Len(idx) : ~KeyLt(keys[i], keys[idx[j]])})
    IN SubSeq(idx, 1, p) \o <<i>> \o SubSeq(idx, p + 1, Len(idx))

\* The elements of recs in ascending order of their keys, elements of equal
\* key in the order of recs.
StableSort(recs, keys) ==
    LET f[i \in 0..Len(recs)] ==
            IF i = 0 THEN <<>> ELSE InsertSorted(f[i-1], i, keys)
    IN [k \in 1..Len(recs) |-> recs[f[Len(recs)][k]]]

\* sorted(list, key=...) / list.sort(key=...): a stable sort by the key's
\* "<"; raises tells whether a comparison the sort has to make raises
\* TypeError, which then propagates.
PySorted(recs, keys, raises) ==
    IF raises
    THEN [exc |-> "TypeError", val |-> <<>>]
    ELSE [exc |-> "none", val |-> StableSort(recs, keys)]

\* key=lambda r: (-r.count, r.timestamp); the datetime is ordered by its
\* instant.
TopKey(r) == <<0 - r.count, Instant(r.timestamp)>>
\* Two keys are compared up to the first position where they differ: the
\* datetimes are compared, and raise if one is naive and one aware, when
\* the counts are equal.
TopKeyRaises(recs) ==
    \E i, j \in 1..Len(recs) :
        /\ i < j
        /\ recs[i].count = recs[j].count
        /\ ~Comparable(recs[i].timestamp, recs[j].timestamp)

FirstThree(s) == SubSeq(s, 1, IF Len(s) < 3 THEN Len(s) ELSE 3)

TopThreeCountOnly(recs) ==
    [exc |-> "none",
     val |-> FirstThree(StableSort(recs, [i \in 1..Len(recs) |-> <<0 - recs[i].count>>]))]
\* top_three_half_hours(records)
TopThreeHalfHours(recs) ==
    LET s == PySorted(recs, [i \in 1..Len(recs) |-> TopKey(recs[i])],
                      TopKeyRaises(recs))
    IN IF s.exc = "none" THEN [exc |-> "none", val |-> FirstThree(s.val)] ELSE s

\* The loop of min_1_5_hour_window from 0-based index start on:
\* [best_start, best_sum] when the loop ends.
RECURSIVE SlideFrom(_, _, _, _, _)
SlideFrom(recs, start, current_sum, best_sum, best_start) ==
    IF start >= Len(recs) - 2
    THEN [best_start |-> best_start, best_sum |-> best_sum]
    ELSE LET cur == current_sum - recs[start].count + recs[start + 3].count
         IN IF cur < best_sum
            THEN SlideFrom(recs, start + 1, cur, cur, start)
            ELSE SlideFrom(recs, start + 1, cur, best_sum, best_start)

RECURSIVE SlideFromLe(_, _, _, _, _)
SlideFromLe(recs, start, current_sum, best_sum, best_start) ==
    IF start >= Len(recs) - 2
    THEN [best_start |-> best_start, best_sum |-> best_sum]
    ELSE LET cur == current_sum - recs[start].count + recs[start + 3].count
         IN IF cur <= best_sum
            THEN SlideFromLe(recs, start + 1, cur, cur, start)
            ELSE SlideFromLe(recs, start + 1, cur, best_sum, best_start)

MinWindowTieLast(recs) ==
    IF Len(recs) < 3 THEN recs
    ELSE LET first == recs[1].count + recs[2].count + recs[3].count
             best  == SlideFromLe(recs, 1, first, first, 0)
         IN SubSeq(recs, best.best_start + 1, best.best_start + 3)
MinWindowShortSorted(recs) ==
    IF Len(recs) < 3 THEN StableSort(recs, [i \in 1..Len(recs) |-> <<recs[i].count>>])
    ELSE LET first == recs[1].count + recs[2].count + recs[3].count
             best  == SlideFrom(recs, 1, first, first, 0)
         IN SubSeq(recs, best.best_start + 1, best.best_start + 3)
\* min_1_5_hour_window(records); records[i] of the code is recs[i + 1].
Min15HourWindow(recs) ==
    IF Len(recs) < 3 THEN recs
    ELSE LET first == recs[1].count + recs[2].count + recs[3].count
             best  == SlideFrom(recs, 1, first, first, 0)
         IN SubSeq(recs, best.best_start + 1, best.best_start + 3)

\* key=lambda r: r.timestamp
SortKey(r) == <<Instant(r.timestamp)>>
\* The sort compares a naive with an aware datetime when the list holds both.
SortRaises(recs) ==
    \E i, j \in 1..Len(recs) :
        i < j /\ ~Comparable(recs[i].timestamp, recs[j].timestamp)
SortByTimestampUnstable(recs) ==
    PySorted(recs, [i \in 1..Len(recs) |-> <<Instant(recs[i].timestamp), 0 - i>>],
             SortRaises(recs))
\* records.sort(key=lambda r: r.timestamp)
SortByTimestamp(recs) ==
    PySorted(recs, [i \in 1..Len(recs) |-> SortKey(recs[i])], SortRaises(recs))

(***************************************************************************)
(* Idle values of the variables a specification does not use               *)
(***************************************************************************)
NoSorted == [exc |-> "none", val |-> <<>>]
NoBody == [records_processed |-> 0, total_cars |-> 0, cars_per_day |-> <<>>,
           top_3_periods |-> <<>>, lowest_1_5_hour_window |-> <<>>]
NoResponse == [status |-> 0, detail |-> "", body |-> NoBody]

AggIdle ==
    /\ called = "none" /\ total = 0 /\ per_day = <<>>
    /\ top3 = NoSorted /\ window = <<>>
OrchIdle ==
    /\ mode = "none" /\ pc = "idle" /\ file = <<>> /\ line_num = 0
    /\ stderr = <<>> /\ parsed = <<>> /\ trace = <<>> /\ stdout = <<>>
    /\ response = NoResponse /\ temp_exists = FALSE
ApiIdle == dir = <<>> /\ data = <<>> /\ rq = <<>>

(***************************************************************************)
(* SpecAgg, SpecWin: the aggregators as pure functions of a record list    *)
(***************************************************************************)
Timestamps == {Naive(1, 47), Naive(2, 0), Aware(2, 0, 1), Aware(1, 47, -1)}
WinTimestamps == {Naive(1, 47), Naive(2, 0)}
CountValues == {-1, 0, 1}

\* The lists of n records over the timestamps T; the i-th object has identity i.
RecordLists(n, T) ==
    {[i \in 1..n |-> Rec(tc[i][1], tc[i][2], i)] : tc \in [1..n -> T \X CountValues]}

AggInit ==
    /\ \E n \in 0..MaxLen : records \in RecordLists(n, Timestamps)
    /\ AggIdle /\ OrchIdle /\ ApiIdle

WinInit ==
    /\ \E n \in 0..MaxWinLen : records \in RecordLists(n, WinTimestamps)
    /\ AggIdle /\ OrchIdle /\ ApiIdle

CallTotalCars ==
    /\ called = "none"
    /\ called' = "total_cars"
    /\ total' = TotalCars(records)
    /\ UNCHANGED <<records, per_day, top3, window, orchVars, apiVars>>

CallCarsPerDay ==
    /\ called = "none"
    /\ called' = "cars_per_day"
    /\ per_day' = CarsPerDay(records)
    /\ UNCHANGED <<records, total, top3, window, orchVars, apiVars>>

CallTopThree ==
    /\ called = "none"
    /\ called' = "top_three_half_hours"
    /\ top3' = TopThreeHalfHours(records)
    /\ UNCHANGED <<records, total, per_day, window, orchVars, apiVars>>

CallMinWindow ==
    /\ called = "none"
    /\ called' = "min_1_5_hour_window"
    /\ window' = Min15HourWindow(records)
    /\ UNCHANGED <<records, total, per_day, top3, orchVars, apiVars>>

AggNext == CallTotalCars \/ CallCarsPerDay \/ CallTopThree \/ CallMinWindow
SpecAgg == AggInit /\ [][AggNext]_vars

WinNext == CallMinWindow
SpecWin == WinInit /\ [][WinNext]_vars

(***************************************************************************)
(* SpecOrch: one run of an orchestrator on one input file                  *)
(*   mode "main": traffic_analysis.main                                    *)
(*   mode "api":  api.analyze_traffic_file, one request                    *)
(***************************************************************************)
LineSet ==
    { <<" ", "\n">>,
      <<"2021-12-02T00:00:00", " ", "3", "\n">>,
      <<" ", "2021-12-01T23:30:00", "\t", "-1", "\n">>,
      <<"2021-12-02T00:00:00+00:30", " ", "10", "\n">>,
      <<"2021-12-01T23:30:00-00:30", " ", "+2", " ", "\n">>,
      <<"BAD_TIMESTAMP", " ", "10", "\n">>,
      <<"2021-12-02", " ", "ABC", "\n">>,
      <<"2021-12-02T00:00:00", " ", "3", " ", "extra", "\n">> }

Files == UNION {[1..n -> LineSet] : n \in 0..MaxLines}

Aggregators == {"total_cars", "cars_per_day", "top_three_half_hours",
                "min_1_5_hour_window"}

OrchInit ==
    /\ mode \in {"main", "api"}
    /\ file \in Files
    /\ pc = IF mode = "main" THEN "parse" ELSE "save"
    /\ records = <<>> /\ line_num = 0 /\ stderr = <<>> /\ parsed = <<>>
    /\ trace = <<>> /\ stdout = <<>> /\ response = NoResponse
    /\ temp_exists = FALSE
    /\ AggIdle /\ ApiIdle

Out(tag, d, t, n) == [tag |-> tag, date |-> d, timestamp |-> t, n |-> n]
\* format_record(r) for every r of rs
FormatRecords(rs) ==
    [k \in 1..Len(rs) |-> Out("record", 0, rs[k].timestamp, rs[k].count)]

\* api.py: the upload is copied to temp_<filename>
ApiSaveUpload ==
    /\ pc = "save"
    /\ temp_exists' = TRUE
    /\ pc' = "parse"
    /\ UNCHANGED <<records, aggVars, mode, file, line_num, stderr, parsed, trace,
                   stdout, response, apiVars>>

\* parse_file, one iteration of the loop: the frame shared by the four
\* outcomes of a line.
ParseFrame ==
    /\ pc = "parse"
    /\ line_num < Len(file)
    /\ line_num' = line_num + 1
    /\ UNCHANGED <<aggVars, mode, pc, file, parsed, trace, stdout, response,
                   temp_exists, apiVars>>

Diagnostic(kind) ==
    [line_num |-> line_num + 1, kind |-> kind, line |-> Strip(file[line_num + 1])]

\* if not line: continue
ParseBlank ==
    /\ ParseFrame
    /\ ParseLine(file[line_num + 1], line_num + 1).kind = "blank"
    /\ UNCHANGED <<records, stderr>>

\* if len(parts) != 2: print the warning; continue
ParseWrongFields ==
    /\ ParseFrame
    /\ ParseLine(file[line_num + 1], line_num + 1).kind = "Warning"
    /\ stderr' = Append(stderr, Diagnostic("Warning"))
    /\ UNCHANGED records

\* except ValueError: print the error
ParseValueError ==
    /\ ParseFrame
    /\ ParseLine(file[line_num + 1], line_num + 1).kind = "Error"
    /\ stderr' = Append(stderr, Diagnostic("Error"))
    /\ UNCHANGED records

\* records.append(HalfHourRecord(timestamp=ts, count=count))
ParseAppend ==
    /\ ParseFrame
    /\ ParseLine(file[line_num + 1], line_num + 1).kind = "record"
    /\ records' = Append(records, ParseLine(file[line_num + 1], line_num + 1).rec)
    /\ UNCHANGED stderr

\* parse_file: return records
ParseReturn ==
    /\ pc = "parse"
    /\ line_num = Len(file)
    /\ parsed' = records
    /\ pc' = "check"
    /\ UNCHANGED <<records, aggVars, mode, file, line_num, stderr, trace, stdout,
                   response, temp_exists, apiVars>>

\* main: if not records: print the note, return 0
MainNoRecords ==
    /\ pc = "check" /\ mode = "main" /\ records = <<>>
    /\ stdout' = Append(stdout, Out("No records found in input file.", 0,
                                    NoRecord.timestamp, 0))
    /\ pc' = "done"
    /\ UNCHANGED <<records, aggVars, mode, file, line_num, stderr, parsed, trace,
                   response, temp_exists, apiVars>>

\* api: if not records: raise HTTPException(status_code=400, ...)
ApiNoRecords ==
    /\ pc = "check" /\ mode = "api" /\ records = <<>>
    /\ pc' = "raised_HTTPException_400"
    /\ UNCHANGED <<records, aggVars, mode, file, line_num, stderr, parsed, trace,
                   stdout, response, temp_exists, apiVars>>

\* The orders list.sort can leave the list in when a comparison raises:
\* the same objects, in an order the sort does not specify.
Reorderings(recs) ==
    {[k \in 1..Len(recs) |-> recs[f[k]]] :
        f \in {g \in [1..Len(recs) -> 1..Len(recs)] :
                  \A i, j \in 1..Len(recs) : g[i] = g[j] => i = j}}

\* records.sort(key=lambda r: r.timestamp); a TypeError ends main and
\* reaches the except clause of the endpoint, and leaves the list partly
\* sorted.
SortRecords ==
    /\ pc = "check" /\ records # <<>>
    /\ trace' = Append(trace, [fn |-> "sort", arg |-> records])
    /\ IF SortByTimestamp(records).exc = "none"
       THEN /\ records' = SortByTimestamp(records).val
            /\ pc' = "total"
       ELSE /\ records' \in Reorderings(records)
            /\ pc' = IF mode = "main" THEN "crashed" ELSE "raised_TypeError"
    /\ UNCHANGED <<aggVars, mode, file, line_num, stderr, parsed, stdout,
                   response, temp_exists, apiVars>>

\* total = total_cars(records); main prints it
StepTotalCars ==
    /\ pc = "total"
    /\ total' = TotalCars(records)
    /\ trace' = Append(trace, [fn |-> "total_cars", arg |-> records])
    /\ stdout' = IF mode = "main"
                 THEN Append(stdout, Out("total", 0, NoRecord.timestamp, total'))
                 ELSE stdout
    /\ pc' = "per_day"
    /\ UNCHANGED <<records, called, per_day, top3, window, mode, file, line_num,
                   stderr, parsed, response, temp_exists, apiVars>>

\* sorted(per_day.keys()): the items by ascending date
SortedByDate(items) == StableSort(items, [k \in 1..Len(items) |-> <<items[k].date>>])

\* per_day = cars_per_day(records); main prints one line per date, by date
StepCarsPerDay ==
    /\ pc = "per_day"
    /\ per_day' = CarsPerDay(records)
    /\ trace' = Append(trace, [fn |-> "cars_per_day", arg |-> records])
    /\ stdout' = IF mode = "main"
                 THEN stdout \o [k \in 1..Len(per_day') |->
                          Out("day", SortedByDate(per_day')[k].date,
                              NoRecord.timestamp, SortedByDate(per_day')[k].cars)]
                 ELSE stdout
    /\ pc' = "top3"
    /\ UNCHANGED <<records, called, total, top3, window, mode, file, line_num,
                   stderr, parsed, response, temp_exists, apiVars>>

\* top3 = top_three_half_hours(records); main prints the records
StepTopThree ==
    /\ pc = "top3"
    /\ top3' = TopThreeHalfHours(records)
    /\ trace' = Append(trace, [fn |-> "top_three_half_hours", arg |-> records])
    /\ IF top3'.exc = "none"
       THEN /\ stdout' = IF mode = "main"
                         THEN stdout \o FormatRecords(top3'.val) ELSE stdout
            /\ pc' = "window"
       ELSE /\ stdout' = stdout
            /\ pc' = IF mode = "main" THEN "crashed" ELSE "raised_TypeError"
    /\ UNCHANGED <<records, called, total, per_day, window, mode, file, line_num,
                   stderr, parsed, response, temp_exists, apiVars>>

\* window = min_1_5_hour_window(records); main prints the records, returns 0
StepMinWindow ==
    /\ pc = "window"
    /\ window' = Min15HourWindow(records)
    /\ trace' = Append(trace, [fn |-> "min_1_5_hour_window", arg |-> records])
    /\ stdout' = IF mode = "main" THEN stdout \o FormatRecords(window') ELSE stdout
    /\ pc' = IF mode = "main" THEN "done" ELSE "return"
    /\ UNCHANGED <<records, called, total, per_day, top3, mode, file, line_num,
                   stderr, parsed, response, temp_exists, apiVars>>

\* {d.isoformat(): count for d, count in daily_counts.items()}
JsonPerDay(items) ==
    [k \in 1..Len(items) |-> [date |-> DateIsoformat(items[k].date),
                              cars |-> items[k].cars]]
\* [{"timestamp": r.timestamp, "count": r.count} for r in ...]
JsonRecords(rs) ==
    [k \in 1..Len(rs) |-> [timestamp |-> rs[k].timestamp, count |-> rs[k].count]]

\* The dict the endpoint returns; meta.filename, which echoes the request's
\* own filename, is left out.
AnalysisBody(recs, tot, days, top, win) ==
    [records_processed |-> Len(recs),
     total_cars |-> tot,
     cars_per_day |-> JsonPerDay(days),
     top_3_periods |-> JsonRecords(top),
     lowest_1_5_hour_window |-> JsonRecords(win)]

\* api: return {...}
ApiReturn ==
    /\ pc = "return"
    /\ response' = [status |-> 200, detail |-> "",
                    body |-> AnalysisBody(records, total, per_day, top3.val, window)]
    /\ pc' = "finally"
    /\ UNCHANGED <<records, aggVars, mode, file, line_num, stderr, parsed, trace,
                   stdout, temp_exists, apiVars>>

\* str(e) of the exception the except clause caught, as the set of the
\* texts it can be: the text of an HTTPException depends on the version of
\* the framework installed (empty, or status and detail).
StrOfException(e) ==
    IF e = "raised_HTTPException_400"
    THEN {"", "400: No valid records found in file."}
    ELSE {"can't compare offset-naive and offset-aware datetimes"}

\* except Exception as e: raise HTTPException(status_code=500, detail=str(e))
\* HTTPException is an Exception, so the 400 raised in the try block is
\* caught here as well.
ExceptClause(e) ==
    {[status |-> 500, detail |-> d, body |-> NoBody] : d \in StrOfException(e)}

ApiExcept ==
    /\ pc \in {"raised_HTTPException_400", "raised_TypeError"}
    /\ response' \in ExceptClause(pc)
    /\ pc' = "finally"
    /\ UNCHANGED <<records, aggVars, mode, file, line_num, stderr, parsed, trace,
                   stdout, temp_exists, apiVars>>

\* finally: if os.path.exists(temp_filename): os.remove(temp_filename)
ApiFinally ==
    /\ pc = "finally"
    /\ temp_exists' = FALSE
    /\ pc' = "done"
    /\ UNCHANGED <<records, aggVars, mode, file, line_num, stderr, parsed, trace,
                   stdout, response, apiVars>>

OrchNext ==
    \/ ApiSaveUpload
    \/ ParseBlank \/ ParseWrongFields \/ ParseValueError \/ ParseAppend
    \/ ParseReturn
    \/ MainNoRecords \/ ApiNoRecords
    \/ SortRecords
    \/ StepTotalCars \/ StepCarsPerDay \/ StepTopThree \/ StepMinWindow
    \/ ApiReturn \/ ApiExcept \/ ApiFinally
SpecOrch == OrchInit /\ [][OrchNext]_vars

(***************************************************************************)
(* SpecApi: two /analyze requests on one working directory                 *)
(*                                                                         *)
(* The handler has no await, so one event loop runs it without a break;    *)
(* the steps below interleave when the two requests are served by two      *)
(* worker processes that share the working directory.  A step is one       *)
(* system call on the temp file or the computation between two of them.    *)
(***************************************************************************)
Requests == {1, 2}
Filenames == {"a.txt", "b.txt"}
\* Uploads: an empty file, two files of one line and a file of two lines;
\* every line has the same length in bytes (22), so an offset in a file is
\* a number of lines.
Uploads ==
    { <<>>,
      << <<"2021-12-02T00:00:00", " ", "3", "\n">> >>,
      << <<"2021-12-01T23:30:00", " ", "3", "\n">> >>,
      << <<"2021-12-01T23:30:00", " ", "3", "\n">>,
         <<"2021-12-02T00:00:00", " ", "3", "\n">> >> }

\* temp_filename = f"temp_{file.filename}"
TempName(filename) == <<"temp_", filename>>
TempNames == {TempName(f) : f \in Filenames}

\* Lines 35-68 of api.py on the lines read from the temp file: the
\* responses the try block can end in, after its except clause.
AnalyzeLines(lines) ==
    LET recs == ParseFile(lines).records
        srt  == SortByTimestamp(recs)
        top  == TopThreeHalfHours(srt.val)
    IN IF recs = <<>> THEN ExceptClause("raised_HTTPException_400")
       ELSE IF srt.exc # "none" THEN ExceptClause("raised_TypeError")
       ELSE IF top.exc # "none" THEN ExceptClause("raised_TypeError")
       ELSE {[status |-> 200, detail |-> "",
              body |-> AnalysisBody(srt.val, TotalCars(srt.val), CarsPerDay(srt.val),
                                    top.val, Min15HourWindow(srt.val))]}

\* open(temp_filename) raised FileNotFoundError and the except clause made
\* it a 500 whose detail is str(e), which names the path.
FileNotFound(filename) ==
    [status |-> 500,
     detail |-> IF filename = "a.txt"
                THEN "[Errno 2] No such file or directory: 'temp_a.txt'"
                ELSE "[Errno 2] No such file or directory: 'temp_b.txt'",
     body |-> NoBody]
\* An exception that leaves the handler: the server answers 500.
InternalServerError ==
    [status |-> 500, detail |-> "Internal Server Error", body |-> NoBody]

ApiInit ==
    /\ dir = [p \in TempNames |-> 0]
    /\ data = [i \in Requests |-> <<>>]
    /\ rq \in [Requests -> [filename : Filenames, upload : Uploads, pc : {"open"},
                            fd : {0}, rfd : {0}, pos : {0}, buf : {<<>>},
                            response : {NoResponse}]]
    /\ records = <<>>
    /\ AggIdle /\ OrchIdle

\* open(temp_filename, "wb"): create the file, or truncate the one there
OpenTemp(r) ==
    /\ rq[r].pc = "open"
    /\ LET p == TempName(rq[r].filename)
           inode == IF dir[p] = 0 THEN r ELSE dir[p]
       IN /\ dir' = [dir EXCEPT ![p] = inode]
          /\ data' = [data EXCEPT ![inode] = <<>>]
          /\ rq' = [rq EXCEPT ![r].pc = "copy", ![r].fd = inode]
    /\ UNCHANGED <<records, aggVars, orchVars>>

\* shutil.copyfileobj and the close of the buffer: the upload is written
\* at offset 0 of the open file, over what is there
CopyUpload(r) ==
    /\ rq[r].pc = "copy"
    /\ LET old == data[rq[r].fd]
           new == rq[r].upload
       IN data' = [data EXCEPT ![rq[r].fd] =
                      new \o SubSeq(old, Len(new) + 1, Len(old))]
    /\ rq' = [rq EXCEPT ![r].pc = "parse"]
    /\ UNCHANGED <<records, aggVars, orchVars, dir>>

\* parse_file: open(path, "r"); FileNotFoundError when the path is gone,
\* which the except clause of the handler turns into a 500
OpenForRead(r) ==
    /\ rq[r].pc = "parse"
    /\ LET p == TempName(rq[r].filename)
       IN rq' = IF dir[p] = 0
                THEN [rq EXCEPT ![r].pc = "exists",
                                ![r].response = FileNotFound(rq[r].filename)]
                ELSE [rq EXCEPT ![r].pc = "read", ![r].rfd = dir[p],
                                ![r].pos = 0, ![r].buf = <<>>]
    /\ UNCHANGED <<records, aggVars, orchVars, dir, data>>

\* What a read of request r's open file returns: the file's content from
\* the reader's offset to its end, as it is at this moment (nothing when
\* the file is no longer than the offset).
Unread(r) == SubSeq(data[rq[r].rfd], rq[r].pos + 1, Len(data[rq[r].rfd]))

\* parse_file, for line in f: a read of the open file that returns data;
\* the lines are kept and the offset advances, and the loop reads again
ReadChunk(r) ==
    /\ rq[r].pc = "read"
    /\ Unread(r) # <<>>
    /\ rq' = [rq EXCEPT ![r].buf = rq[r].buf \o Unread(r),
                        ![r].pos = rq[r].pos + Len(Unread(r))]
    /\ UNCHANGED <<records, aggVars, orchVars, dir, data>>

\* parse_file, for line in f: the read that returns end of file; the loop
\* ends, and the handler analyses the lines the reads returned
ReadEofAndAnalyze(r) ==
    /\ rq[r].pc = "read"
    /\ Unread(r) = <<>>
    /\ \E resp \in AnalyzeLines(rq[r].buf) :
          rq' = [rq EXCEPT ![r].pc = "exists", ![r].response = resp]
    /\ UNCHANGED <<records, aggVars, orchVars, dir, data>>

\* finally: if os.path.exists(temp_filename)
CheckExists(r) ==
    /\ rq[r].pc = "exists"
    /\ rq' = [rq EXCEPT ![r].pc = IF dir[TempName(rq[r].filename)] = 0
                                  THEN "done" ELSE "remove"]
    /\ UNCHANGED <<records, aggVars, orchVars, dir, data>>

\* os.remove(temp_filename); FileNotFoundError when the path is gone
RemoveTemp(r) ==
    /\ rq[r].pc = "remove"
    /\ LET p == TempName(rq[r].filename)
       IN IF dir[p] = 0
          THEN /\ rq' = [rq EXCEPT ![r].pc = "done",
                                   ![r].response = InternalServerError]
               /\ dir' = dir
          ELSE /\ rq' = [rq EXCEPT ![r].pc = "done"]
               /\ dir' = [dir EXCEPT ![p] = 0]
    /\ UNCHANGED <<records, aggVars, orchVars, data>>

ApiNext ==
    \E r \in Requests :
        \/ OpenTemp(r) \/ CopyUpload(r) \/ OpenForRead(r)
        \/ ReadChunk(r) \/ ReadEofAndAnalyze(r)
        \/ CheckExists(r) \/ RemoveTemp(r)
SpecApi == ApiInit /\ [][ApiNext]_vars

(***************************************************************************)
(* Properties of the aggregators                                           *)
(***************************************************************************)
SumCounts(recs) ==
    LET f[i \in 0..Len(recs)] == IF i = 0 THEN 0 ELSE f[i-1] + recs[i].count
    IN f[Len(recs)]
SumCars(items) ==
    LET f[i \in 0..Len(items)] == IF i = 0 THEN 0 ELSE f[i-1] + items[i].cars
    IN f[Len(items)]
\* Sum of the window of three records that starts at 0-based index k.
WinSum(recs, k) == recs[k+1].count + recs[k+2].count + recs[k+3].count
Min2(a, b) == IF a < b THEN a ELSE b
Ids(s) == {s[k].id : k \in 1..Len(s)}

\* C1: on a list of n >= 3 records, in any order, min_1_5_hour_window
\* returns records[s .. s+2] in list order, where s is the smallest start
\* index of a window of three list-adjacent records with minimal sum: no
\* window has a smaller sum and every window of equal sum starts at or
\* after s.
C1_LeftmostMinWindow ==
    (called = "min_1_5_hour_window" /\ Len(records) >= 3) =>
        \E s \in 0..Len(records) - 3 :
            /\ window = SubSeq(records, s + 1, s + 3)
            /\ \A k \in 0..Len(records) - 3 :
                  /\ WinSum(records, k) >= WinSum(records, s)
                  /\ WinSum(records, k) = WinSum(records, s) => k >= s

\* A list not sorted by timestamp in which two windows tie for the minimum
\* and the winner is neither the first nor the last window.
C1_Witness ==
    /\ called = "min_1_5_hour_window"
    /\ Len(records) = 5
    /\ window = SubSeq(records, 2, 4)
    /\ WinSum(records, 2) = WinSum(records, 1)
    /\ WinSum(records, 0) > WinSum(records, 1)
    /\ TsLt(records[3].timestamp, records[2].timestamp)

\* C6: on a list of fewer than 3 records min_1_5_hour_window returns the
\* same records in the same order, and the caller's list is not changed.
C6_ShortInputUnchanged ==
    [][(called' = "min_1_5_hour_window" /\ Len(records) < 3) =>
          (window' = records /\ records' = records)]_vars

C6_Witness ==
    /\ called = "min_1_5_hour_window"
    /\ Len(records) = 2
    /\ records[1].count > records[2].count
    /\ TsLt(records[2].timestamp, records[1].timestamp)
    /\ window = records

\* C4: the values of cars_per_day(records) sum to total_cars(records),
\* which is the sum of all counts (0 and an empty dict for no records), and
\* the keys of the dict are exactly the calendar dates of the records.
C4_PerDaySumsToTotal ==
    /\ called = "total_cars" => total = SumCounts(records)
    /\ called = "cars_per_day" =>
          /\ SumCars(per_day) = TotalCars(records)
          /\ SumCars(per_day) = SumCounts(records)
          /\ {per_day[k].date : k \in 1..Len(per_day)}
                = {DateOf(records[i].timestamp) : i \in 1..Len(records)}
          /\ \A j, k \in 1..Len(per_day) : per_day[j].date = per_day[k].date => j = k
          /\ records = <<>> => per_day = <<>>

\* Two days, a duplicate timestamp and a negative count.
C4_Witness ==
    /\ called = "cars_per_day"
    /\ Len(per_day) = 2
    /\ \E i, j \in 1..Len(records) :
          i < j /\ records[i].timestamp = records[j].timestamp
                /\ records[i].count < 0 /\ records[j].count > 0

\* C2 as stated: top_three_half_hours returns at most 3 records, and of two
\* returned records the one placed first has the larger count, or the same
\* count and a strictly earlier timestamp.
C2_StrictRanking ==
    (called = "top_three_half_hours" /\ top3.exc = "none") =>
        /\ Len(top3.val) <= 3
        /\ \A i, j \in 1..Len(top3.val) : i < j =>
              \/ top3.val[i].count > top3.val[j].count
              \/ /\ top3.val[i].count = top3.val[j].count
                 /\ TsLt(top3.val[i].timestamp, top3.val[j].timestamp)

\* C2 amended: whenever top_three_half_hours returns, it returns at most 3
\* records, and of two returned records the one placed first has the larger
\* count, or the same count and a timestamp that is not later.
C2_WeakRanking ==
    (called = "top_three_half_hours" /\ top3.exc = "none") =>
        /\ Len(top3.val) <= 3
        /\ \A i, j \in 1..Len(top3.val) : i < j =>
              \/ top3.val[i].count > top3.val[j].count
              \/ /\ top3.val[i].count = top3.val[j].count
                 /\ Comparable(top3.val[i].timestamp, top3.val[j].timestamp)
                 /\ ~TsLt(top3.val[j].timestamp, top3.val[i].timestamp)

\* Four records of one count; the list holds the later timestamp first and
\* the result holds the earlier one first.
C2_Witness ==
    /\ called = "top_three_half_hours" /\ top3.exc = "none"
    /\ Len(records) = 4 /\ Len(top3.val) = 3
    /\ top3.val[1].count = top3.val[2].count
    /\ TsLt(top3.val[1].timestamp, top3.val[2].timestamp)
    /\ top3.val[1].id > top3.val[2].id

\* What C7 says of a result res for the list recs: min(3, n) records of the
\* list, each at most once, none of the others ranking above a returned one.
TopRanked(recs, res) ==
    /\ Len(res) = Min2(3, Len(recs))
    /\ \A k \in 1..Len(res) : res[k].id \in 1..Len(recs) /\ res[k] = recs[res[k].id]
    /\ \A j, k \in 1..Len(res) : res[j].id = res[k].id => j = k
    /\ \A i \in 1..Len(recs) : i \notin Ids(res) =>
          \A k \in 1..Len(res) :
              /\ recs[i].count <= res[k].count
              /\ recs[i].count = res[k].count =>
                    /\ Comparable(recs[i].timestamp, res[k].timestamp)
                    /\ ~TsLt(recs[i].timestamp, res[k].timestamp)
    /\ Len(recs) < 3 =>
          /\ Ids(res) = 1..Len(recs)
          /\ \A j, k \in 1..Len(res) : j < k => res[j].count >= res[k].count

\* C7: for every list of n records top_three_half_hours returns the
\* min(3, n) highest-ranked records of the list.  It does not: on a list
\* in which two records of equal count pair a naive with an aware timestamp
\* (records parse_file yields) sorted() raises TypeError and nothing is
\* returned.
C7_AlwaysTopRanked ==
    called = "top_three_half_hours" =>
        (top3.exc = "none" /\ TopRanked(records, top3.val))

(***************************************************************************)
(* Properties of the parser and the orchestrators                          *)
(***************************************************************************)
\* A line as the specification classifies it, from its fields alone.
Fields(line) == SelectSeq(line, LAMBDA sym : ~IsSpace(sym))
BlankLine(line) == \A k \in 1..Len(line) : IsSpace(line[k])
ValidLine(line) ==
    /\ Len(Fields(line)) = 2
    /\ FromIsoformat(Fields(line)[1]).exc = "none"
    /\ IntOf(Fields(line)[2]).exc = "none"
\* The records of the valid lines among the first n lines, in line order.
ValidRecords(lines, n) ==
    LET f[i \in 0..n] ==
            IF i = 0 THEN <<>>
            ELSE IF ValidLine(lines[i])
                 THEN Append(f[i-1], Rec(FromIsoformat(Fields(lines[i])[1]).val,
                                         IntOf(Fields(lines[i])[2]).val, i))
                 ELSE f[i-1]
    IN f[n]

\* C3: parse_file never aborts; when it returns, the list holds exactly the
\* records of the valid lines, one per valid line, in line order; every
\* malformed non-blank line has left no record and at least one diagnostic
\* on stderr; a blank line has left neither.
C3_ParseRobust ==
    /\ (pc = "parse" /\ line_num < Len(file)) =>
          ParseLine(file[line_num + 1], line_num + 1).kind
             \in {"blank", "Warning", "Error", "record"}
    /\ pc = "parse" => records = ValidRecords(file, line_num)
    /\ pc \notin {"save", "parse"} =>
          /\ parsed = ValidRecords(file, Len(file))
          /\ \A i \in 1..Len(file) :
                LET diags == {k \in 1..Len(stderr) : stderr[k].line_num = i}
                    recs  == {k \in 1..Len(parsed) : parsed[k].id = i}
                IN /\ BlankLine(file[i]) => (diags = {} /\ recs = {})
                   /\ (~BlankLine(file[i]) /\ ~ValidLine(file[i])) =>
                         (diags # {} /\ recs = {})
                   /\ ValidLine(file[i]) => Cardinality(recs) = 1

\* A file of a valid line, a blank line, a bad count and a valid line.
C3_Witness ==
    /\ pc = "check"
    /\ Len(file) = 4
    /\ ValidLine(file[1]) /\ BlankLine(file[2])
    /\ ~ValidLine(file[3]) /\ ~BlankLine(file[3]) /\ Len(Fields(file[3])) = 2
    /\ ValidLine(file[4])
    /\ Len(parsed) = 2 /\ Len(stderr) = 1

\* s is a stable ascending sort of p: the same record objects, timestamps
\* non-decreasing, records of equal timestamp in the order of p.
PosIn(p, r) == CHOOSE i \in 1..Len(p) : p[i] = r
StableAscending(p, s) ==
    /\ Len(s) = Len(p)
    /\ \A k \in 1..Len(s) : \E i \in 1..Len(p) : p[i] = s[k]
    /\ \A j, k \in 1..Len(s) : j < k =>
          /\ s[j] # s[k]
          /\ Comparable(s[j].timestamp, s[k].timestamp)
          /\ ~TsLt(s[k].timestamp, s[j].timestamp)
          /\ TsEq(s[j].timestamp, s[k].timestamp) => PosIn(p, s[j]) < PosIn(p, s[k])

\* w is a run of adjacent elements of s.
AdjacentRun(s, w) ==
    \E st \in 0..Len(s) - Len(w) : w = SubSeq(s, st + 1, st + Len(w))

\* An aggregator is called only on a non-empty parse result and after the
\* timestamp sort, and the list it receives is a stable ascending sort of
\* the parser's output.
SortPrecedesAggregators ==
    /\ \A k \in 1..Len(trace) :
          trace[k].fn \in Aggregators =>
             /\ parsed # <<>>
             /\ \E j \in 1..k-1 : trace[j].fn = "sort" /\ trace[j].arg = parsed
             /\ StableAscending(parsed, trace[k].arg)
    /\ (pc \in {"total", "per_day", "top3", "window", "return"}
          \/ (pc \in {"done", "finally"} /\ response.status = 200)) =>
          (trace # <<>> /\ trace[1].fn = "sort" /\ StableAscending(parsed, records))

\* The window the orchestrator reports (the last lines main prints, the
\* lowest_1_5_hour_window of the 200 response) is the one the window search
\* returned, a run of adjacent records of the sorted list.
WindowReported ==
    \A k \in 1..Len(trace) :
        trace[k].fn = "min_1_5_hour_window" =>
           /\ AdjacentRun(trace[k].arg, window)
           /\ (mode = "main" /\ pc = "done") =>
                 \E st \in 0..Len(stdout) - Len(window) :
                    SubSeq(stdout, st + 1, Len(stdout)) = FormatRecords(window)
           /\ (mode = "api" /\ pc = "done") =>
                 (response.status = 200 /\
                  response.body.lowest_1_5_hour_window = JsonRecords(window))

\* C5 as stated: in every run of main or /analyze with a non-empty parse
\* result, an aggregator is called only after the timestamp sort, and the
\* list every aggregator receives is a stable ascending sort of the parser's
\* output; the window reported is three records adjacent in that
\* chronological order.
C5_WindowOfThree ==
    /\ SortPrecedesAggregators
    /\ WindowReported
    /\ \A k \in 1..Len(trace) :
          trace[k].fn = "min_1_5_hour_window" => Len(window) = 3

\* C5 amended: in every run of main or /analyze with a non-empty parse
\* result, an aggregator is called only after the timestamp sort, and the
\* list every aggregator receives is a stable ascending sort of the parser's
\* output; the window reported is min(3, n) records adjacent in that
\* chronological order, n the number of parsed records: three when the file
\* has three valid lines or more, all the records when it has one or two.
C5_SortBeforeAggregate ==
    /\ SortPrecedesAggregators
    /\ WindowReported
    /\ \A k \in 1..Len(trace) :
          trace[k].fn = "min_1_5_hour_window" =>
             Len(window) = Min2(3, Len(parsed))

\* The endpoint answers a file of four records given out of order, two of
\* them with the same timestamp, and the window is not the first three
\* records of the file.
C5_Witness ==
    /\ mode = "api" /\ pc = "done" /\ response.status = 200
    /\ Len(parsed) = 4 /\ Len(trace) = 5
    /\ parsed # records
    /\ \E i, j \in 1..4 : i < j /\ TsEq(parsed[i].timestamp, parsed[j].timestamp)
    /\ \E i, j \in 1..4 : i < j /\ TsLt(parsed[j].timestamp, parsed[i].timestamp)
    /\ window # SubSeq(parsed, 1, 3)
    /\ window # SubSeq(records, 1, 3)

\* C9: when the upload yields no valid record, /analyze calls no
\* aggregator, the client receives status 400 with the detail "No valid
\* records found in file." and the temp file is removed.
C9_EmptyIs400 ==
    (mode = "api" /\ pc = "done" /\ parsed = <<>>) =>
        /\ trace = <<>>
        /\ response.status = 400
        /\ response.detail = "No valid records found in file."
        /\ ~temp_exists

\* The order of two ISO dates, as their fields.
IsoDateLt(a, b) ==
    \/ a[1] < b[1]
    \/ a[1] = b[1] /\ a[2] < b[2]
    \/ a[1] = b[1] /\ a[2] = b[2] /\ a[3] < b[3]

\* C10: the per-day totals reach the consumer by ascending date: the "day"
\* lines main prints are in ascending date order, and the cars_per_day
\* object of every 200 response of /analyze lists its keys in ascending
\* date order.
C10_PerDayAscending ==
    /\ mode = "main" =>
          LET days == SelectSeq(stdout, LAMBDA o : o.tag = "day")
          IN \A j, k \in 1..Len(days) : j < k => days[j].date < days[k].date
    /\ (mode = "api" /\ response.status = 200) =>
          \A j, k \in 1..Len(response.body.cars_per_day) : j < k =>
              IsoDateLt(response.body.cars_per_day[j].date,
                        response.body.cars_per_day[k].date)

\* C8: whatever the interleaving of two /analyze requests, also when both
\* uploads carry the same filename, each request's response is the one it
\* gets when it runs alone: it is computed from its own upload only, and
\* the temp file is there for as long as the request needs it.
C8_RequestsIsolated ==
    \A r \in Requests :
        /\ rq[r].pc \in {"exists", "remove", "done"} =>
              rq[r].response \in AnalyzeLines(rq[r].upload)
        /\ rq[r].pc = "parse" =>
              /\ dir[TempName(rq[r].filename)] # 0
              /\ data[dir[TempName(rq[r].filename)]] = rq[r].upload
        /\ rq[r].pc = "read" => rq[r].buf \o Unread(r) = rq[r].upload

\* The endpoint's answer in SpecOrch is the one AnalyzeLines computes.
OrchAgreesWithAnalyzeLines ==
    (mode = "api" /\ pc \in {"finally", "done"}) => response \in AnalyzeLines(file)

====
